---------------------------- MODULE Spec2Model ----------------------------
(***************************************************************************)
(* Model of vulsim_codegen.py, the VulSim C++ code generator, and of the   *)
(* two-phase (tick / applytick) behaviour of the C++ it emits.             *)
(*                                                                         *)
(*   - the generator run: loading bundle descriptors, the bundle           *)
(*     dependency resolver (Kahn's algorithm), bundle.h, the combine loop  *)
(*     and the final warning summary;                                      *)
(*   - the emitted all_current_tick / all_current_applytick bodies,        *)
(*     executed statement by statement under an orchestrator that runs     *)
(*     every tick before any applytick.                                    *)
(*                                                                         *)
(* Text is a sequence of one-character strings; an emitted line is a       *)
(* sequence of tokens.                                                     *)
(***************************************************************************)
EXTENDS Integers, Sequences, FiniteSets, TLC

VARIABLES
    \* ---- generator run -------------------------------------------------
    pc,                   \* position of the script
    exitCode,             \* -1 while running, 0 / 1 once the process ended
    outFiles,             \* files present in the output directory
    nBundleFiles,         \* len(bundle_xml_files)
    nCombineFiles,        \* number of combine/*.xml files
    fileIdx,              \* index of the next descriptor file of the current loop
    bundleXml,            \* the bundle files parsed so far, as read (name, raw members)
    bundleKeys,           \* bundles.keys(), in insertion order
    bundles,              \* bundles : name -> list[BundleMember]
    bundle_depend_former, \* list of (member type, owning bundle)
    bundle_graph,
    indegree,
    bundle_queue,
    bundle_sequence,
    loopNames,            \* names printed by "Bundle Check Failed: Loop Dependency in ..."
    bundle_h_lines,
    warnings,             \* warnings : list[str]
    printed,              \* the "WARN %d: %s" lines printed at the end of the run
    storage,              \* the loop variable `storage`, which outlives its loop
    combineXml,           \* the combine file being / last processed, as read
    gen,                  \* the field lists and emitted units of that combine
    dupLog,               \* combines seen with more than one tick / applytick block
    \* ---- emitted code at run time --------------------------------------
    phase,                \* orchestrator phase: "tick" or "applytick"
    ran,                  \* modules whose lifecycle call of this phase returned
    active,               \* module whose lifecycle call is executing, or NoModule
    ip,                   \* index of the next statement of the executing body
    inUser,               \* the executing call is inside its user_current_* function
    opsLeft,              \* user-logic operations left in the running user function
    snCur,                \* StorageNext current value, per module
    snPend,               \* StorageNext pending proposal, per module
    tickReg,              \* the storagetick field, per module
    stalled,              \* the stalled flag, per module
    lastGet,              \* what the latest <name>_get() returned
    committed,            \* the latest commit run by all_current_applytick: value set, proposals it saw
    proposed,             \* the setnext proposals made since the latest commit
    execCount,            \* statements and stall() calls run by the current lifecycle call
    userAssigned,         \* phase in which user logic last assigned the storagetick field this cycle
    stallTick,            \* stall() was called in tick and the next applytick has not returned
    \* ---- extract_cpp_function_body ------------------------------------
    cppItems,             \* the top-level declarations of the C++ file, with their layout
    func_name,            \* the function asked for
    nodeIdx,              \* index of the next child of tu.cursor
    func_body,            \* whether the call returned, and the text it returned
    \* ---- two runs over inputs that differ in <storage> only -----------
    twinPlan,             \* the combine files of both runs, <storage> elements left out
    twinRuns              \* per run: position, loop variable `storage`, inputs read, declarations emitted

genVars == <<pc, exitCode, outFiles, nBundleFiles, nCombineFiles, fileIdx,
             bundleXml, bundleKeys, bundles, bundle_depend_former, bundle_graph,
             indegree, bundle_queue, bundle_sequence, loopNames, bundle_h_lines,
             warnings, printed, storage, combineXml, gen, dupLog>>

runVars == <<phase, ran, active, ip, inUser, opsLeft, snCur, snPend, tickReg,
             stalled, lastGet, committed, proposed, execCount, userAssigned,
             stallTick>>

extVars == <<cppItems, func_name, nodeIdx, func_body>>

twinVars == <<twinPlan, twinRuns>>

vars == <<genVars, runVars, extVars, twinVars>>

\* the extractor variables, idle outside a call of extract_cpp_function_body
NotReturned == [returned |-> FALSE, text |-> <<>>]
ExtIdle ==
    cppItems = <<>> /\ func_name = "-" /\ nodeIdx = 0 /\ func_body = NotReturned

\* the twin-run variables, idle in a single run
TwinIdle == twinPlan = <<>> /\ twinRuns = <<>>

---------------------------------------------------------------------------
(* Bounds of the model *)

\* members over all bundle files of one run of the resolver
MaxMembers == 4

\* members over all bundle files of one run that varies the <value> elements
MaxValued == 3

---------------------------------------------------------------------------
(* Small helpers *)

Range(s) == {s[i] : i \in 1..Len(s)}

RECURSIVE Concat(_)
Concat(ss) == IF ss = <<>> THEN <<>> ELSE Head(ss) \o Concat(Tail(ss))

IndexOf(s, x) == CHOOSE i \in 1..Len(s) : s[i] = x

SeqsUpTo(S, n) == UNION {[1..k -> S] : k \in 0..n}

\* str.strip(): whitespace removed at both ends, the inside kept
Blank == {" ", "\n", "\t"}

RECURSIVE LStrip(_)
LStrip(t) == IF t # <<>> /\ Head(t) \in Blank THEN LStrip(Tail(t)) ELSE t

RECURSIVE RStrip(_)
RStrip(t) ==
    IF t # <<>> /\ t[Len(t)] \in Blank THEN RStrip(SubSeq(t, 1, Len(t) - 1)) ELSE t

Strip(t) == RStrip(LStrip(t))

---------------------------------------------------------------------------
(* XML elements as the script reads them *)

\* an optional child element such as <value>: present or not, its number of
\* children, its text
NoElem == [present |-> FALSE, kids |-> 0, text |-> <<>>]
Elem(k, t) == [present |-> TRUE, kids |-> k, text |-> t]

\* `if e.find("value"):` tests an Element's truth value, which is
\* len(e) != 0, its number of children; find() gives None when absent
Truthy(e) == e.present /\ e.kids > 0

\* `e.find("value") is not None`
Found(e) == e.present

basic_data_type == {"bool", "int8", "int16", "int32", "int64", "int128",
                    "uint8", "uint16", "uint32", "uint64", "uint128"}

---------------------------------------------------------------------------
(* Bundle descriptors *)

\* bundle files in os.listdir order; the n-th file defines the n-th name
BundleNames == <<"A", "B", "C">>

\* member types drawn by the resolver runs: a primitive, the three bundle
\* names (undefined when the run has fewer files) and a name never defined
DepTypes == {"int32", "A", "B", "C", "U"}

\* member names are unique within a bundle (the i-th member is named mi)
MemberNames == <<"m1", "m2", "m3", "m4", "m5", "m6", "m7", "m8">>
MemberName(i) == MemberNames[i]

\* raw members whose <value> is absent
DepMembers == {[type |-> t, value |-> NoElem] : t \in DepTypes}

\* raw members with every shape of <value>
ValueElems == {NoElem, Elem(0, <<"5">>), Elem(0, <<" ", "5", "\n">>),
               Elem(1, <<"7", " ">>)}
ValuedMembers == {[type |-> t, value |-> v] : t \in {"int32", "B", "U"},
                                              v \in ValueElems}

\* lines 82-90: one <member> becomes a BundleMember
BundleMember(i, raw) ==
    [name  |-> MemberName(i),
     type  |-> raw.type,
     value |-> IF raw.type \in basic_data_type /\ Truthy(raw.value)
               THEN Strip(raw.value.text) ELSE <<"0">>]

\* lines 89-90: the dependency pairs one bundle adds
DependFormer(name, raws) ==
    LET idx == {i \in 1..Len(raws) : raws[i].type \notin basic_data_type}
        RECURSIVE Pick(_)
        Pick(i) == IF i > Len(raws) THEN <<>>
                   ELSE (IF i \in idx THEN <<  <<raws[i].type, name>>  >> ELSE <<>>)
                        \o Pick(i + 1)
    IN Pick(1)

MembersRead == LET RECURSIVE Sum(_)
                   Sum(i) == IF i = 0 THEN 0 ELSE Len(bundleXml[i].members) + Sum(i - 1)
               IN Sum(Len(bundleXml))


\* lines 100-105: the graph and the in-degrees, unknown types skipped
RECURSIVE AddEdges(_, _, _, _)
AddEdges(deps, keys, graph, indeg) ==
    IF deps = <<>> THEN [graph |-> graph, indegree |-> indeg]
    ELSE LET a == Head(deps)[1]
             b == Head(deps)[2]
         IN IF a \notin keys
            THEN AddEdges(Tail(deps), keys, graph, indeg)
            ELSE AddEdges(Tail(deps), keys,
                          [graph EXCEPT ![a] = Append(@, b)],
                          [indeg EXCEPT ![b] = @ + 1])

\* line 107
InitialQueue(keys, indeg) == SelectSeq(keys, LAMBDA e : indeg[e] = 0)

\* lines 113-116: the neighbours of the dequeued node
RECURSIVE RelaxAlways(_, _, _)
RelaxAlways(neis, indeg, queue) ==
    IF neis = <<>> THEN [indegree |-> indeg, queue |-> queue]
    ELSE RelaxAlways(Tail(neis), [indeg EXCEPT ![Head(neis)] = @ - 1],
                     Append(queue, Head(neis)))
RECURSIVE Relax(_, _, _)
Relax(neis, indeg, queue) ==
    IF neis = <<>> THEN [indegree |-> indeg, queue |-> queue]
    ELSE LET nei == Head(neis)
             d   == indeg[nei] - 1
         IN Relax(Tail(neis), [indeg EXCEPT ![nei] = d],
                  IF d = 0 THEN Append(queue, nei) ELSE queue)

\* line 118
ResolveFailedNever(seq, keys) == Len(seq) > Len(keys)
ResolveFailed(seq, keys) == Len(seq) # Len(keys)

\* line 119: the names joined into the error message
LoopDependency(keys, indeg) == SelectSeq(keys, LAMBDA e : indeg[e] # 0)

\* lines 134-141: the struct of one bundle
MemberLine(mem) ==
    IF mem.type \in basic_data_type
    THEN <<"    ", mem.type, " ", mem.name, " = ">> \o mem.value \o <<";">>
    ELSE <<"    ", mem.type, " ", mem.name, ";">>

StructLines(bundle, members) ==
    << <<"typedef struct {">> >>
    \o [i \in 1..Len(members) |-> MemberLine(members[i])]
    \o << <<"} ", bundle, ";">>, <<>> >>

\* lines 126-141
BundleHLines(seq, bs) ==
    << <<"#pragma once">>, <<>>, <<"#include \"common.h\"">>,
       <<"#include \"global.h\"">>, <<>> >>
    \o Concat([i \in 1..Len(seq) |-> StructLines(seq[i], bs[seq[i]])])

---------------------------------------------------------------------------
(* The run, bundle stage *)

RootTags == {"bundle", "combine"}

NoModule == "-"
NoGen == [fields |-> <<>>, header_lines |-> <<>>, cpp_lines |-> <<>>]
NoCombine == [tag |-> "-", name |-> NoModule]

\* the emitted-code variables, idle while the generator runs
RunIdle ==
    /\ phase = "-" /\ ran = {} /\ active = NoModule /\ ip = 0
    /\ inUser = FALSE /\ opsLeft = 0
    /\ snCur = <<>> /\ snPend = <<>> /\ tickReg = <<>> /\ stalled = <<>>
    /\ lastGet = <<>> /\ committed = <<>> /\ proposed = <<>> /\ execCount = <<>>
    /\ userAssigned = <<>> /\ stallTick = <<>>

\* lines 19-51: both directories are valid, the output directory is empty
GenInit ==
    /\ pc = "load_bundles"
    /\ exitCode = -1
    /\ outFiles = {}
    /\ nBundleFiles \in 0..Len(BundleNames)
    /\ fileIdx = 1
    /\ bundleXml = <<>>
    /\ bundleKeys = <<>>
    /\ bundles = <<>>
    /\ bundle_depend_former = <<>>
    /\ bundle_graph = <<>>
    /\ indegree = <<>>
    /\ bundle_queue = <<>>
    /\ bundle_sequence = <<>>
    /\ loopNames = <<>>
    /\ bundle_h_lines = <<>>
    /\ warnings = <<>>
    /\ printed = <<>>
    /\ storage = [bound |-> FALSE, value |-> NoElem]
    /\ combineXml = NoCombine
    /\ gen = NoGen
    /\ dupLog = {}

Put(f, k, v) == [x \in DOMAIN f \cup {k} |-> IF x = k THEN v ELSE f[x]]

\* lines 69-92: one bundle file; `raws` are its <member> elements
LoadBundleFrom(Members, budget) ==
    /\ pc = "load_bundles"
    /\ fileIdx <= nBundleFiles
    /\ \E tag \in RootTags, n \in 0..(budget - MembersRead) :
       \E raws \in [1..n -> Members] :
          IF tag # "bundle"
          THEN /\ pc' = "exit_schema"
               /\ exitCode' = 1
               /\ UNCHANGED <<fileIdx, bundleXml, bundleKeys, bundles,
                              bundle_depend_former>>
          ELSE LET name == BundleNames[fileIdx] IN
               /\ bundleXml' = Append(bundleXml, [name |-> name, members |-> raws])
               /\ bundle_depend_former' =
                      bundle_depend_former \o DependFormer(name, raws)
               /\ bundles' = Put(bundles, name,
                                 [i \in 1..n |-> BundleMember(i, raws[i])])
               /\ bundleKeys' = IF name \in Range(bundleKeys) THEN bundleKeys
                                ELSE Append(bundleKeys, name)
               /\ fileIdx' = fileIdx + 1
               /\ UNCHANGED <<pc, exitCode>>
    /\ UNCHANGED <<outFiles, nBundleFiles, nCombineFiles, bundle_graph, indegree,
                   bundle_queue, bundle_sequence, loopNames, bundle_h_lines,
                   warnings, printed, storage, combineXml, gen, dupLog>>
    /\ UNCHANGED <<runVars, extVars, twinVars>>

LoadBundle == LoadBundleFrom(DepMembers, MaxMembers)

LoadValuedBundle == LoadBundleFrom(ValuedMembers, MaxValued)

\* lines 97-108: graph, in-degrees and the initial queue
BuildGraph ==
    /\ pc = "load_bundles"
    /\ fileIdx > nBundleFiles
    /\ LET keys == Range(bundleKeys)
           g == AddEdges(bundle_depend_former, keys,
                         [e \in keys |-> <<>>], [e \in keys |-> 0])
       IN /\ bundle_graph' = g.graph
          /\ indegree' = g.indegree
          /\ bundle_queue' = InitialQueue(bundleKeys, g.indegree)
    /\ bundle_sequence' = <<>>
    /\ pc' = "kahn"
    /\ UNCHANGED <<exitCode, outFiles, nBundleFiles, nCombineFiles, fileIdx,
                   bundleXml, bundleKeys, bundles, bundle_depend_former,
                   loopNames, bundle_h_lines, warnings, printed, storage,
                   combineXml, gen, dupLog>>
    /\ UNCHANGED <<runVars, extVars, twinVars>>

\* lines 110-116: one iteration of the while loop
KahnStep ==
    /\ pc = "kahn"
    /\ bundle_queue # <<>>
    /\ LET node == Head(bundle_queue)
           r == Relax(bundle_graph[node], indegree, Tail(bundle_queue))
       IN /\ bundle_sequence' = Append(bundle_sequence, node)
          /\ indegree' = r.indegree
          /\ bundle_queue' = r.queue
    /\ UNCHANGED <<pc, exitCode, outFiles, nBundleFiles, nCombineFiles, fileIdx,
                   bundleXml, bundleKeys, bundles, bundle_depend_former,
                   bundle_graph, loopNames, bundle_h_lines, warnings, printed,
                   storage, combineXml, gen, dupLog>>
    /\ UNCHANGED <<runVars, extVars, twinVars>>

\* lines 118-120: the loop check, once the queue is empty
CheckLoop ==
    /\ pc = "kahn"
    /\ bundle_queue = <<>>
    /\ IF ResolveFailed(bundle_sequence, bundleKeys)
       THEN /\ loopNames' = LoopDependency(bundleKeys, indegree)
            /\ pc' = "exit_loop"
            /\ exitCode' = 1
       ELSE /\ pc' = "emit_bundle_h"
            /\ UNCHANGED <<loopNames, exitCode>>
    /\ UNCHANGED <<outFiles, nBundleFiles, nCombineFiles, fileIdx, bundleXml,
                   bundleKeys, bundles, bundle_depend_former, bundle_graph,
                   indegree, bundle_queue, bundle_sequence, bundle_h_lines,
                   warnings, printed, storage, combineXml, gen, dupLog>>
    /\ UNCHANGED <<runVars, extVars, twinVars>>

\* lines 126-146: bundle.h
EmitBundleH ==
    /\ pc = "emit_bundle_h"
    /\ bundle_h_lines' = BundleHLines(bundle_sequence, bundles)
    /\ outFiles' = outFiles \cup {<<"bundle", "h">>}
    /\ pc' = "copy_headers"
    /\ UNCHANGED <<exitCode, nBundleFiles, nCombineFiles, fileIdx, bundleXml,
                   bundleKeys, bundles, bundle_depend_former, bundle_graph,
                   indegree, bundle_queue, bundle_sequence, loopNames, warnings,
                   printed, storage, combineXml, gen, dupLog>>
    /\ UNCHANGED <<runVars, extVars, twinVars>>

---------------------------------------------------------------------------
(* Specifications of the bundle stage *)

ResolveInit == GenInit /\ nCombineFiles = 0 /\ RunIdle /\ ExtIdle /\ TwinIdle

ResolveNext == LoadBundle \/ BuildGraph \/ KahnStep \/ CheckLoop \/ EmitBundleH

\* the run up to bundle.h, over bundles whose members have no <value>
SpecResolve == ResolveInit /\ [][ResolveNext]_vars

EmitNext == LoadValuedBundle \/ BuildGraph \/ KahnStep \/ CheckLoop \/ EmitBundleH

\* the same run over members with every shape of <value>
SpecEmit == ResolveInit /\ [][EmitNext]_vars


---------------------------------------------------------------------------
(* Combine descriptors *)

\* combine files in os.listdir order; the n-th file defines the n-th name
CombineNames == <<"M1", "M2">>

codetab == "    "

\* str.split("\n"): "" gives one empty line
RECURSIVE Split(_)
Split(t) ==
    IF \A i \in 1..Len(t) : t[i] # "\n" THEN <<t>>
    ELSE LET i == CHOOSE k \in 1..Len(t) :
                      t[k] = "\n" /\ \A j \in 1..(k - 1) : t[j] # "\n"
         IN <<SubSeq(t, 1, i - 1)>> \o Split(SubSeq(t, i + 1, Len(t)))

\* lines 400-408 (also 331-338, 419-427, 437-445): the lines of one
\* <cppfunc>; `extracted` is what extract_cpp_function_body returned
CppFuncLines(cf) ==
    (IF cf.file THEN Split(cf.extracted) ELSE <<>>)
    \o [i \in 1..Len(cf.code) |-> Strip(cf.code[i])]

\* line 238: composite types are passed by reference
ArgType(type) == IF type \notin basic_data_type THEN <<type, " &">> ELSE <<type>>

\* lines 235-250: one pipein
PipeinMembers(e) ==
    << <<"PipeInputPort<", e.type, "> * _pipein_", e.name, ";">>,
       <<"/* ", " */">>,
       <<"bool ", e.name, "_can_pop() { return _pipein_", e.name, "->can_pop(); };">>,
       <<"/* ", " */">>,
       ArgType(e.type) \o <<" ", e.name, "_top() { return _pipein_", e.name, "->top(); };">>,
       <<"/* ", " */">>,
       <<"void ", e.name, "_pop() { _pipein_", e.name, "->pop(); };">> >>
PipeinArg(e) == <<"PipeInputPort<", e.type, "> * pipein_", e.name, ";">>
PipeinAssign(e) == <<"this->_pipein_", e.name, " = arg.pipein_", e.name, ";">>

\* lines 252-265: one pipeout
PipeoutMembers(e) ==
    << <<"PipeOutputPort<", e.type, "> * _pipeout_", e.name, ";">>,
       <<"/* ", " */">>,
       <<"bool ", e.name, "_can_push() { return _pipeout_", e.name, "->can_push(); };">>,
       <<"/* ", " */">>,
       <<"void ", e.name, "_push(">> \o ArgType(e.type)
           \o <<" value) { _pipeout_", e.name, "->push(value); };">> >>
PipeoutArg(e) == <<"PipeOutputPort<", e.type, "> * pipeout_", e.name, ";">>
PipeoutAssign(e) == <<"this->_pipeout_", e.name, " = arg.pipeout_", e.name, ";">>

\* lines 267-299: one request without arguments
RequestMembers(e) ==
    << <<"void (*_request_", e.name, ")(", ");">>,
       <<"/*">>,
       <<" * ", "Request ", e.name>>,
       <<" */">>,
       <<"void ", e.name, "(", ") { _request_", e.name, "(", "); };">> >>
RequestArg(e) == <<"void (*request_", e.name, ")(", ");">>
RequestAssign(e) == <<"this->_request_", e.name, " = arg.request_", e.name, ";">>

\* lines 351-363: one plain storage
StorageMembers(e) ==
    << <<"/* ", " */">>,
       IF Truthy(e.value)
       THEN <<e.type, " ", e.name, " = ">> \o Strip(e.value.text) \o <<";">>
       ELSE IF e.type \in basic_data_type
            THEN <<e.type, " ", e.name, " = 0;">>
            ELSE <<e.type, " ", e.name, ";">> >>

\* the loop variable `storage`: unbound until a <storage> was visited
Unbound == [bound |-> FALSE, value |-> NoElem]
Bound(e) == [bound |-> TRUE, value |-> e.value]

\* line 351: `storage` after the loop over root.findall("storage")
StorageAfter(before, elems) ==
    IF elems = <<>> THEN before ELSE Bound(elems[Len(elems)])

\* lines 365-380: one storagenext; the test of lines 370-371 reads `storage`
StorageNextMembers(e, st) ==
    << IF Truthy(st.value)
       THEN <<"StorageNext<", e.type, "> _storagenext_", e.name,
              " = StorageNext<", e.type, ">(">> \o Strip(st.value.text) \o <<");">>
       ELSE <<"StorageNext<", e.type, "> _storagenext_", e.name, ";">>,
       <<"/* ", " */">> >>
    \o << ArgType(e.type) \o <<" ", e.name, "_get() { return _storagenext_",
                                e.name, ".get(); };">>,
          <<"/* ", " */">>,
          <<"void ", e.name, "_setnext(">> \o ArgType(e.type)
              \o <<" value, uint8 priority) { _storagenext_", e.name,
                   ".setnext(value, priority); } ;">> >>
StorageNextApply(e) == <<"_storagenext_", e.name, ".apply_tick();">>

\* lines 382-390: one storagetick
StorageTickValue(e) == IF Found(e.value) THEN Strip(e.value.text) ELSE <<"0">>
StorageTickMember(e) == <<e.type, " ", e.name, " = ">> \o StorageTickValue(e) \o <<";">>
StorageTickReset(e) == <<e.name, " = ">> \o StorageTickValue(e) \o <<";">>

\* lines 450-458: stallable
StallMembers ==
    << <<"bool stalled = false;">>,
       <<"void (*_external_stall)();">>,
       <<"void stall() { stalled = true; _external_stall(); }">> >>
StallArg == <<"void (*external_stall)();">>
StallAssign == <<"this->_external_stall = arg.external_stall;">>
StallReset == <<"stalled = false;">>

Map(Op(_), s) == [i \in 1..Len(s) |-> Op(s[i])]

\* lines 399-411: every <init> adds its lines to the constructor
InitLines(inits) == Concat(Map(CppFuncLines, inits))

\* lines 418 and 436: ticks[0], applyticks[0]
LastBlock(blocks) == blocks[Len(blocks)]
FirstBlock(blocks) == blocks[1]

\* lines 414-430 and 432-448: the user lifecycle body
UserField(blocks) == IF Len(blocks) > 0 THEN CppFuncLines(FirstBlock(blocks)) ELSE <<>>

\* lines 415-416 and 433-434
MultipleWarning(cname, blocks, what) ==
    IF Len(blocks) > 1
    THEN << <<"Combine ", cname, " has multiple ", what,
              "(), only the first one is used">> >>
    ELSE <<>>

\* constructor_field in the order the script appends to it:
\* lines 248, 263, 297, 410 and only then 455
ConstructorField(xml) ==
    Map(PipeinAssign, xml.pipein)
    \o Map(PipeoutAssign, xml.pipeout)
    \o Map(RequestAssign, xml.request)
    \o InitLines(xml.init)
    \o (IF xml.stallable THEN <<StallAssign>> ELSE <<>>)

ConstructorArgumentsField(xml) ==
    Map(PipeinArg, xml.pipein)
    \o Map(PipeoutArg, xml.pipeout)
    \o Map(RequestArg, xml.request)
    \o (IF xml.stallable THEN <<StallArg>> ELSE <<>>)

MemberField(xml, st) ==
    Concat(Map(PipeinMembers, xml.pipein))
    \o Concat(Map(PipeoutMembers, xml.pipeout))
    \o Concat(Map(RequestMembers, xml.request))
    \o Concat(Map(StorageMembers, xml.storage))
    \o Concat([i \in 1..Len(xml.storagenext) |->
                  StorageNextMembers(xml.storagenext[i], st)])
    \o Map(StorageTickMember, xml.storagetick)
    \o (IF xml.stallable THEN StallMembers ELSE <<>>)

\* tick_field is created at line 230 and never appended to
TickFieldCommit(xml) == Map(StorageNextApply, xml.storagenext)
TickField(xml) == <<>>

\* applytick_field: lines 379, 389, 456
ApplytickFieldNoCommit(xml) ==
    Map(StorageTickReset, xml.storagetick)
    \o (IF xml.stallable THEN <<StallReset>> ELSE <<>>)
ApplytickFieldNoReset(xml) ==
    Map(StorageNextApply, xml.storagenext)
    \o (IF xml.stallable THEN <<StallReset>> ELSE <<>>)
ApplytickField(xml) ==
    Map(StorageNextApply, xml.storagenext)
    \o Map(StorageTickReset, xml.storagetick)
    \o (IF xml.stallable THEN <<StallReset>> ELSE <<>>)

Indent(n, lines) ==
    [i \in 1..Len(lines) |-> [j \in 1..n |-> codetab] \o lines[i]]

\* lines 462-501: <name>.h
HeaderLines(xml, g) ==
    << <<"#pragma once">>, <<>>, <<"#include \"common.h\"">>,
       <<"#include \"global.h\"">>, <<"#include \"bundle.h\"">>,
       <<"#include \"vulsimlib.h\"">>, <<>>,
       <<"/* ", "Combine ", xml.name, " */">>,
       <<"class ", xml.name, " {">>, <<"public:">>,
       <<codetab, "class ConstructorArguments {">>, <<codetab, "public:">> >>
    \o Indent(2, g.constructor_arguments_field)
    \o << <<codetab, codetab, "int32 __dummy = 0;">>, <<codetab, "};">>, <<>> >>
    \o << <<codetab, xml.name, "(ConstructorArguments & arg) {">> >>
    \o Indent(2, g.constructor_field)
    \o << <<codetab, "}">>, <<>> >>
    \o << <<codetab, "~", xml.name, "() {">>, <<codetab, "}">>, <<>> >>
    \o << <<codetab, "void all_current_tick();">>,
          <<codetab, "void all_current_applytick();">>,
          <<codetab, "void user_current_tick();">>,
          <<codetab, "void user_current_applytick();">>, <<>> >>
    \o Indent(1, g.member_field)
    \o << <<"};">> >>

\* lines 503-525: <name>.cpp (no service or function in the modelled combines)
CppLines(xml, g) ==
    << <<"#include \"", xml.name, ".h\"">>, <<>> >>
    \o << <<"void ", xml.name, "::", "all_current_tick", "() {">> >>
    \o Indent(1, g.tick_field)
    \o << <<codetab, "user_current_tick();">>, <<"}">> >>
    \o << <<"void ", xml.name, "::", "all_current_applytick", "() {">> >>
    \o Indent(1, g.applytick_field)
    \o << <<codetab, "user_current_applytick();">>, <<"}">> >>
    \o << <<"void ", xml.name, "::", "user_current_tick", "() {">> >>
    \o Indent(1, g.user_tick_field)
    \o << <<"}">> >>
    \o << <<"void ", xml.name, "::", "user_current_applytick", "() {">> >>
    \o Indent(1, g.user_applytick_field)
    \o << <<"}">> >>

\* lines 223-458: the field lists of one combine; st is `storage` when the
\* storagenext loop runs
Fields(xml, st) ==
    [constructor_arguments_field |-> ConstructorArgumentsField(xml),
     constructor_field    |-> ConstructorField(xml),
     member_field         |-> MemberField(xml, st),
     tick_field           |-> TickField(xml),
     applytick_field      |-> ApplytickField(xml),
     user_tick_field      |-> UserField(xml.tick),
     user_applytick_field |-> UserField(xml.applytick)]

\* lines 223-534: everything emitted for one combine
Generate(xml, st) ==
    LET g == Fields(xml, st)
    IN [fields |-> g, header_lines |-> HeaderLines(xml, g), cpp_lines |-> CppLines(xml, g)]

---------------------------------------------------------------------------
(* The run, combine stage *)

\* <init>, <tick> and <applytick> blocks per combine
MaxBlocks == 2

\* members over all bundle files of a run that goes on to the combines
MaxGenMembers == 1

\* the statements of the k-th block of a kind, told apart by their text
BlockText ==
    [init      |-> <<<<"init1_a();", "init1_b();", "init1_c();">>,
                      <<"init2_a();", "init2_b();", "init2_c();">>,
                      <<"init3_a();", "init3_b();", "init3_c();">>,
                      <<"init4_a();", "init4_b();", "init4_c();">>>>,
     tick      |-> <<<<"tick1_a();", "tick1_b();", "tick1_c();">>,
                      <<"tick2_a();", "tick2_b();", "tick2_c();">>,
                      <<"tick3_a();", "tick3_b();", "tick3_c();">>,
                      <<"tick4_a();", "tick4_b();", "tick4_c();">>>>,
     applytick |-> <<<<"applytick1_a();", "applytick1_b();", "applytick1_c();">>,
                      <<"applytick2_a();", "applytick2_b();", "applytick2_c();">>,
                      <<"applytick3_a();", "applytick3_b();", "applytick3_c();">>,
                      <<"applytick4_a();", "applytick4_b();", "applytick4_c();">>>>]

\* a <cppfunc> with <file> (a two-line body was extracted) and one <code>
FileAndCode(kind, k) ==
    [file |-> TRUE,
     extracted |-> <<BlockText[kind][k][1], "\n", BlockText[kind][k][2]>>,
     code |-> << <<" ", BlockText[kind][k][3], "\n">> >>]

\* a <cppfunc> with one <code> only
CodeOnly(kind, k) ==
    [file |-> FALSE, extracted |-> <<>>, code |-> << <<BlockText[kind][k][3]>> >>]

BlockSeqs(kind, Shapes) ==
    UNION {{[k \in 1..n |-> IF k \in F THEN FileAndCode(kind, k) ELSE CodeOnly(kind, k)] :
               F \in {G \in SUBSET (1..n) : Shapes = 2 \/ G = 1..n}} : n \in 0..MaxBlocks}

EmptyCombine(name) ==
    [tag |-> "combine", name |-> name, pipein |-> <<>>, pipeout |-> <<>>,
     request |-> <<>>, storage |-> <<>>, storagenext |-> <<>>,
     storagetick |-> <<>>, init |-> <<>>, tick |-> <<>>, applytick |-> <<>>,
     stallable |-> FALSE]

WrongRoot(name) == [EmptyCombine(name) EXCEPT !.tag = "bundle"]

\* combine files that vary the root tag and the <tick> / <applytick> blocks
LifecycleCombines(name) ==
    {WrongRoot(name)} \cup
    {[EmptyCombine(name) EXCEPT !.tick = t, !.applytick = a] :
        t \in BlockSeqs("tick", 2), a \in BlockSeqs("applytick", 1)}

Port(n) == [name |-> n, type |-> "int32"]

\* combine files that vary what the constructor receives and the <init> blocks
CtorCombines(name) ==
    {[EmptyCombine(name) EXCEPT !.pipein = i, !.pipeout = o, !.request = r,
                                !.init = c, !.stallable = b] :
        i \in {<<>>, <<Port("in0")>>}, o \in {<<>>, <<Port("out0")>>},
        r \in {<<>>, <<[name |-> "req0"]>>}, c \in BlockSeqs("init", 2),
        b \in BOOLEAN}

LoadGenBundle == LoadBundleFrom(DepMembers, MaxGenMembers)

\* lines 151-162: the support headers
CopyHeaders ==
    /\ pc = "copy_headers"
    /\ outFiles' = outFiles \cup {<<"global", "h">>, <<"common", "h">>,
                                  <<"vulsimlib", "h">>, <<"lib", "/">>}
    /\ pc' = "combines"
    /\ fileIdx' = 1
    /\ UNCHANGED <<exitCode, nBundleFiles, nCombineFiles, bundleXml, bundleKeys,
                   bundles, bundle_depend_former, bundle_graph, indegree,
                   bundle_queue, bundle_sequence, loopNames, bundle_h_lines,
                   warnings, printed, storage, combineXml, gen, dupLog>>
    /\ UNCHANGED <<runVars, extVars, twinVars>>

\* the blocks of the file just read that come in more than one copy
Duplicated(xml) ==
    {<<xml.name, k>> : k \in {w \in {"tick", "applytick"} : Len(xml[w]) > 1}}

\* the combine files of a family that a directory entry may hold
CombineFiles(family, name) ==
    IF family = "ctor" THEN CtorCombines(name) ELSE LifecycleCombines(name)

\* lines 212-534: one combine file
GenCombineFrom(family) ==
    /\ pc = "combines"
    /\ fileIdx <= nCombineFiles
    /\ \E xml \in CombineFiles(family, CombineNames[fileIdx]) :
          /\ combineXml' = xml
          /\ IF xml.tag # "combine"
             THEN \* lines 216-218
                  /\ pc' = "exit_schema"
                  /\ exitCode' = 1
                  /\ UNCHANGED <<outFiles, fileIdx, warnings, storage, gen, dupLog>>
             ELSE LET st == StorageAfter(storage, xml.storage) IN
                  /\ storage' = st
                  /\ dupLog' = dupLog \cup Duplicated(xml)
                  /\ IF \/ (xml.storagenext # <<>> /\ ~st.bound)
                        \/ \E i \in 1..Len(xml.storagetick) :
                              xml.storagetick[i].type \notin basic_data_type
                     THEN \* NameError at line 370, AssertionError at line 386
                          /\ pc' = "crash"
                          /\ exitCode' = 1
                          /\ UNCHANGED <<outFiles, fileIdx, warnings, gen>>
                     ELSE /\ gen' = Generate(xml, st)
                          /\ warnings' = warnings
                                 \o MultipleWarning(xml.name, xml.tick, "tick")
                                 \o MultipleWarning(xml.name, xml.applytick, "applytick")
                          /\ outFiles' = outFiles \cup {<<xml.name, "h">>, <<xml.name, "cpp">>}
                          /\ fileIdx' = fileIdx + 1
                          /\ UNCHANGED <<pc, exitCode>>
    /\ UNCHANGED <<nBundleFiles, nCombineFiles, bundleXml, bundleKeys, bundles,
                   bundle_depend_former, bundle_graph, indegree, bundle_queue,
                   bundle_sequence, loopNames, bundle_h_lines, printed>>
    /\ UNCHANGED <<runVars, extVars, twinVars>>

GenCombine ==
    GenCombineFrom("lifecycle")

GenCtorCombine ==
    GenCombineFrom("ctor")

DecimalDigits == <<"0", "1", "2", "3", "4", "5", "6", "7", "8", "9">>

\* lines 542-543: "WARN %d: %s", numbered from 0
WarnLines(ws) == [i \in 1..Len(ws) |-> <<"WARN ", DecimalDigits[i], ": ">> \o ws[i]]

\* lines 540-546: the summary, then the script ends
Summary ==
    /\ pc = "combines"
    /\ fileIdx > nCombineFiles
    /\ printed' = WarnLines(warnings)
    /\ pc' = "done"
    /\ exitCode' = 0
    /\ UNCHANGED <<outFiles, nBundleFiles, nCombineFiles, fileIdx, bundleXml,
                   bundleKeys, bundles, bundle_depend_former, bundle_graph,
                   indegree, bundle_queue, bundle_sequence, loopNames,
                   bundle_h_lines, warnings, storage, combineXml, gen, dupLog>>
    /\ UNCHANGED <<runVars, extVars, twinVars>>

\* a whole run: up to two bundle files, up to two combine files
GenRunInit ==
    /\ GenInit
    /\ nBundleFiles <= 2
    /\ nCombineFiles \in 0..Len(CombineNames)
    /\ RunIdle
    /\ ExtIdle
    /\ TwinIdle

GenNext ==
    \/ LoadGenBundle \/ BuildGraph \/ KahnStep \/ CheckLoop \/ EmitBundleH
    \/ CopyHeaders \/ GenCombine \/ Summary

\* whole runs over combines that vary root tag and lifecycle blocks
SpecGen == GenRunInit /\ [][GenNext]_vars

CtorNext ==
    \/ LoadGenBundle \/ BuildGraph \/ KahnStep \/ CheckLoop \/ EmitBundleH
    \/ CopyHeaders \/ GenCtorCombine \/ Summary

\* whole runs over combines that vary ports, requests, <init> and <stallable>
SpecCtor == GenRunInit /\ [][CtorNext]_vars

---------------------------------------------------------------------------
(* The dependency graph of the bundles as read, stated apart from the      *)
(* resolver's own data                                                     *)

Defined == {bundleXml[i].name : i \in 1..Len(bundleXml)}

RawMembers(b) == bundleXml[CHOOSE i \in 1..Len(bundleXml) : bundleXml[i].name = b].members

\* a -> b: bundle b has a member whose type is the defined bundle a
Embeds(b, a) == \E i \in 1..Len(RawMembers(b)) : RawMembers(b)[i].type = a

Edges == {e \in Defined \X Defined : Embeds(e[2], e[1])}

RECURSIVE Closure(_, _)
Closure(R, n) ==
    IF n = 0 THEN R
    ELSE Closure(R \cup {<<p[1][1], p[2][2]>> :
                            p \in {q \in R \X R : q[1][2] = q[2][1]}}, n - 1)

Acyclic == \A e \in Closure(Edges, Cardinality(Defined)) : e[1] # e[2]

\* the script is past the resolver (lines 97-120)
ResolverDone == pc \in {"exit_loop", "emit_bundle_h", "copy_headers", "combines",
                        "summary", "done", "crash"}
                /\ ~(pc = "exit_schema")

AllLoaded == Len(bundleXml) = nBundleFiles

NoDuplicates(s) == \A i, j \in 1..Len(s) : s[i] = s[j] => i = j

\* C1: for every acyclic bundle graph (unknown member types add no edge and
\* do not fail the run) the resolver succeeds, and bundle_sequence holds
\* every bundle name exactly once, each bundle strictly before every bundle
\* that has a member of its type, several members of one type included.
C1_TopologicalOrder ==
    (ResolverDone /\ Acyclic) =>
        /\ pc # "exit_loop"
        /\ Range(bundle_sequence) = Defined
        /\ NoDuplicates(bundle_sequence)
        /\ \A e \in Edges :
              IndexOf(bundle_sequence, e[1]) < IndexOf(bundle_sequence, e[2])

\* an acyclic run with a chain A -> B -> C, two members of type A in B and
\* a member of an undefined type
C1_Witness ==
    /\ pc = "emit_bundle_h"
    /\ Edges = {<<"A", "B">>, <<"B", "C">>}
    /\ Cardinality({i \in 1..Len(RawMembers("B")) : RawMembers("B")[i].type = "A"}) = 2
    /\ \E i \in 1..Len(RawMembers("C")) : RawMembers("C")[i].type = "U"
    /\ bundle_sequence = <<"A", "B", "C">>

\* C2: the resolver fails, with exit code 1 and before bundle.h is written,
\* exactly when the graph among defined bundles has a cycle (a bundle
\* embedding itself included); the error names exactly the bundles missing
\* from the resolved order, which are those whose in-degree is still
\* nonzero; when the only embeddings are A in B and B in A it names {A, B}.
C2_CycleDetection ==
    ResolverDone =>
        /\ (pc = "exit_loop") <=> ~Acyclic
        /\ pc = "exit_loop" =>
              /\ exitCode = 1
              /\ <<"bundle", "h">> \notin outFiles
              /\ NoDuplicates(loopNames)
              /\ Range(loopNames) = Defined \ Range(bundle_sequence)
              /\ Range(loopNames) = {e \in Defined : indegree[e] # 0}
        /\ \A a, b \in Defined :
              (a # b /\ Edges = {<<a, b>>, <<b, a>>}) => Range(loopNames) = {a, b}

\* A and B embed each other, C is a third bundle embedding nothing defined
C2_Witness ==
    /\ pc = "exit_loop"
    /\ Defined = {"A", "B", "C"}
    /\ Edges = {<<"A", "B">>, <<"B", "A">>}
    /\ loopNames = <<"A", "B">>
    /\ bundle_sequence = <<"C">>

\* the struct the claim C10 describes for one bundle
ClaimedMemberLine(i, raw) ==
    IF raw.type \in basic_data_type
    THEN <<"    ", raw.type, " ", MemberName(i), " = ">>
         \o (IF raw.value.present THEN Strip(raw.value.text) ELSE <<"0">>)
         \o <<";">>
    ELSE <<"    ", raw.type, " ", MemberName(i), ";">>

ClaimedStruct(b) ==
    << <<"typedef struct {">> >>
    \o [i \in 1..Len(RawMembers(b)) |-> ClaimedMemberLine(i, RawMembers(b)[i])]
    \o << <<"} ", b, ";">>, <<>> >>

\* the lines of bundle.h that make up the struct of the k-th emitted bundle
RECURSIVE StructStart(_)
StructStart(k) ==
    IF k = 1 THEN 6
    ELSE StructStart(k - 1) + Len(bundles[bundle_sequence[k - 1]]) + 3

EmittedStruct(k) ==
    SubSeq(bundle_h_lines, StructStart(k),
           StructStart(k) + Len(bundles[bundle_sequence[k]]) + 2)

\* C10: every emitted struct lists the members in descriptor order, a
\* primitive member with a <value> element has exactly that value as its
\* default, a primitive member without one has default 0, and a
\* bundle-typed member has no default.
C10_StructDefaults ==
    pc = "copy_headers" =>
        \A k \in 1..Len(bundle_sequence) :
            EmittedStruct(k) = ClaimedStruct(bundle_sequence[k])

\* the part of C10 the script keeps: order, "= 0" without a <value>, no
\* default for bundle-typed members (a <value> with text only is dropped)
C10_OrderKept ==
    pc = "copy_headers" =>
        \A k \in 1..Len(bundle_sequence) :
            LET b == bundle_sequence[k] IN
            /\ Len(EmittedStruct(k)) = Len(RawMembers(b)) + 3
            /\ \A i \in 1..Len(RawMembers(b)) :
                  LET line == EmittedStruct(k)[i + 1]
                      raw == RawMembers(b)[i]
                  IN /\ line[2] = raw.type /\ line[4] = MemberName(i)
                     /\ raw.type \notin basic_data_type => Len(line) = 5
                     /\ (raw.type \in basic_data_type /\ ~raw.value.present)
                           => line = ClaimedMemberLine(i, raw)


---------------------------------------------------------------------------
(* The emitted units, read back as text *)

\* the lines between the line `head` and the next line `close`
BodyBetween(lines, head, close) ==
    LET h == CHOOSE i \in 1..Len(lines) : lines[i] = head
        e == CHOOSE i \in (h + 1)..Len(lines) :
                 lines[i] = close /\ \A j \in (h + 1)..(i - 1) : lines[j] # close
    IN SubSeq(lines, h + 1, e - 1)

\* a line without its n leading codetabs
Unindent(n, lines) == [i \in 1..Len(lines) |-> SubSeq(lines[i], n + 1, Len(lines[i]))]

\* the body of <name>::<fn>() in the lines of <name>.cpp
FnBody(cpp, name, fn) ==
    Unindent(1, BodyBetween(cpp, <<"void ", name, "::", fn, "() {">>, <<"}">>))

EmittedBody(name, fn) == FnBody(gen.cpp_lines, name, fn)

\* the body of the constructor in <name>.h
EmittedConstructor(name) ==
    Unindent(2, BodyBetween(gen.header_lines,
                            <<codetab, name, "(ConstructorArguments & arg) {">>,
                            <<codetab, "}">>))

\* the combine file just read had the right root and its units were written
Generated == combineXml.tag = "combine" /\ <<combineXml.name, "cpp">> \in outFiles
             /\ pc \in {"combines", "done"}

Count(s, x) == Cardinality({i \in 1..Len(s) : s[i] = x})

WarningText(c, what) ==
    <<"Combine ", c, " has multiple ", what, "(), only the first one is used">>

\* C7: whenever a descriptor file, bundle or combine, at any position, has
\* the wrong root tag, the run ends with exit code 1 and the output
\* directory holds no file.
C7_NoPartialOutput ==
    pc = "exit_schema" => (exitCode = 1 /\ outFiles = {})

\* what the script does keep: exit code 1, and no unit of the offending
\* combine or of a later one
C7_ExitCode ==
    pc = "exit_schema" =>
        /\ exitCode = 1
        /\ combineXml # NoCombine =>
              \A k \in fileIdx..Len(CombineNames) :
                  <<CombineNames[k], "h">> \notin outFiles

\* C8: a combine with two or more <tick> blocks (likewise <applytick>) does
\* not stop the run; exactly one warning for that combine and kind is
\* recorded, and printed once in the numbered summary when the run ends;
\* the emitted user_current_tick (user_current_applytick) body is the first
\* block's lines and holds no line of a later block.
C8_FirstBlockWins ==
    /\ \A w \in {"tick", "applytick"} :
          (combineXml # NoCombine /\ combineXml.tag = "combine"
              /\ Len(combineXml[w]) >= 2) =>
             LET body == EmittedBody(combineXml.name,
                                     IF w = "tick" THEN "user_current_tick"
                                     ELSE "user_current_applytick")
             IN /\ Generated
                /\ fileIdx = IndexOf(CombineNames, combineXml.name) + 1
                /\ body = CppFuncLines(combineXml[w][1])
                /\ \A k \in 2..Len(combineXml[w]) :
                      Range(CppFuncLines(combineXml[w][k])) \cap Range(body) = {}
    /\ pc \in {"combines", "done"} =>
          \A d \in dupLog : Count(warnings, WarningText(d[1], d[2])) = 1
    /\ pc = "done" =>
          /\ Len(printed) = Len(warnings)
          /\ \A d \in dupLog :
                \E i \in 1..Len(printed) :
                   /\ printed[i] = <<"WARN ", DecimalDigits[i], ": ">>
                                      \o WarningText(d[1], d[2])
                   /\ \A j \in 1..Len(printed) :
                         SubSeq(printed[j], 4, Len(printed[j])) = WarningText(d[1], d[2])
                            => j = i

\* a finished run in which M1 had two <tick> blocks and M2 two <tick> and
\* two <applytick> blocks, the second <tick> of M2 with an extracted body
C8_Witness ==
    /\ pc = "done"
    /\ dupLog = {<<"M1", "tick">>, <<"M2", "tick">>, <<"M2", "applytick">>}
    /\ Len(combineXml.tick) = 2 /\ combineXml.tick[2].file /\ ~combineXml.tick[1].file
    /\ Len(printed) = 3

\* the assignments of what is handed to the constructor: pipein and pipeout
\* handles, request function pointers, the external-stall callback
InjectedAssignments(xml) ==
    Range(Map(PipeinAssign, xml.pipein)) \cup Range(Map(PipeoutAssign, xml.pipeout))
    \cup Range(Map(RequestAssign, xml.request))
    \cup (IF xml.stallable THEN {StallAssign} ELSE {})

\* C9: in the emitted constructor body every line of the init CodeBlock
\* comes after every injected-dependency assignment, the external-stall
\* callback of a stallable combine included.
C9_InitAfterInjected ==
    Generated =>
        LET body == EmittedConstructor(combineXml.name) IN
        \A i, j \in 1..Len(body) :
            (body[i] \in Range(InitLines(combineXml.init))
                /\ body[j] \in InjectedAssignments(combineXml)) => j < i

\* the order the script does keep: init lines after the pipein, pipeout and
\* request assignments, before the external-stall assignment
C9_InitAfterPorts ==
    Generated =>
        LET body == EmittedConstructor(combineXml.name) IN
        \A i, j \in 1..Len(body) :
            (body[i] \in Range(InitLines(combineXml.init))
                /\ body[j] \in InjectedAssignments(combineXml))
            => (j < i <=> body[j] # StallAssign)


---------------------------------------------------------------------------
(* The emitted code at run time *)

\* operations one call of a user_current_* function may perform
MaxOps == 2

\* the two combines of the simulated design.  M1 owns a storagenext field
\* r, a storagetick field t without <value> and is stallable; M2 owns a
\* storagetick field t with <value> 1 </value>, is stallable and reaches
\* M1's field through a request bound to a service of M1.
RunModules == {"M1", "M2"}

RunXml(m) ==
    IF m = "M1"
    THEN [EmptyCombine(m) EXCEPT
             !.storage = << [name |-> "s", type |-> "int32", value |-> NoElem] >>,
             !.storagenext = << [name |-> "r", type |-> "int32", value |-> NoElem] >>,
             !.storagetick = << [name |-> "t", type |-> "int32", value |-> NoElem] >>,
             !.stallable = TRUE]
    ELSE [EmptyCombine(m) EXCEPT
             !.request = << [name |-> "req0"] >>,
             !.storagetick = << [name |-> "t", type |-> "int32",
                                 value |-> Elem(0, <<" ", "1", " ">>)] >>,
             !.stallable = TRUE]

\* what the generator emits for a module
Emitted(m) == Generate(RunXml(m), StorageAfter(Unbound, RunXml(m).storage))

LifecycleBody(m, ph) ==
    FnBody(Emitted(m).cpp_lines, m,
           IF ph = "tick" THEN "all_current_tick" ELSE "all_current_applytick")

SNOwners == {m \in RunModules : RunXml(m).storagenext # <<>>}
TROwners == {m \in RunModules : RunXml(m).storagetick # <<>>}
Stallables == {m \in RunModules : RunXml(m).stallable}

\* statements of the emitted bodies, recognised by their text
IsCommit(line) ==
    Len(line) = 3 /\ line[1] = "_storagenext_" /\ line[3] = ".apply_tick();"
IsAssign(line) == Len(line) >= 4 /\ line[2] = " = " /\ line[Len(line)] = ";"
IsStallReset(line) == line = <<"stalled = false;">>
IsUserCall(line) ==
    line \in {<<"user_current_tick();">>, <<"user_current_applytick();">>}

\* the value in a declaration `type name = value;`
DeclaredValue(line) == SubSeq(line, 5, Len(line) - 1)

\* the value in a statement `name = value;`
AssignedValue(line) == SubSeq(line, 3, Len(line) - 1)

Values == {<<"0">>, <<"1">>}
Priorities == {1, 2}
TickValues == {<<"0">>, <<"7">>}

\* StorageNext<T> of vulsimlib.h: get() gives the current value
SNGet(cur) == cur

\* setnext(value, priority): the pending value is the proposal of highest
\* priority; which of two proposals of equal priority is kept is open
NoPending == [valid |-> FALSE, value |-> <<>>, prio |-> 0]
SNSetNext(pend, v, p) ==
    LET new == [valid |-> TRUE, value |-> v, prio |-> p]
    IN IF ~pend.valid \/ p > pend.prio THEN {new}
       ELSE IF p = pend.prio THEN {new, pend}
       ELSE {pend}

\* apply_tick(): the pending value, if any, becomes the current value
SNApplyTick(cur, pend) == IF pend.valid THEN pend.value ELSE cur

\* the values proposed at the highest priority among props
Winners(props) ==
    {q[1] : q \in {r \in props : \A o \in props : o[2] <= r[2]}}

NoGet == [target |-> NoModule, value |-> <<>>]
ZeroCount == [commit |-> 0, reset |-> 0, stall |-> 0, requests |-> 0]

\* the generator variables, idle while the emitted code runs
GenIdle ==
    /\ pc = "done" /\ exitCode = 0 /\ outFiles = {}
    /\ nBundleFiles = 0 /\ nCombineFiles = 0 /\ fileIdx = 1
    /\ bundleXml = <<>> /\ bundleKeys = <<>> /\ bundles = <<>>
    /\ bundle_depend_former = <<>> /\ bundle_graph = <<>> /\ indegree = <<>>
    /\ bundle_queue = <<>> /\ bundle_sequence = <<>> /\ loopNames = <<>>
    /\ bundle_h_lines = <<>> /\ warnings = <<>> /\ printed = <<>>
    /\ storage = Unbound /\ combineXml = NoCombine /\ gen = NoGen /\ dupLog = {}

\* the modules after construction: a StorageNext declared without an
\* initial value holds any value, the other fields their declared value
RunInit ==
    /\ GenIdle
    /\ ExtIdle
    /\ TwinIdle
    /\ phase = "tick" /\ ran = {} /\ active = NoModule /\ ip = 0
    /\ inUser = FALSE /\ opsLeft = 0
    /\ snCur \in [SNOwners -> Values]
    /\ \A m \in SNOwners :
          LET decl == StorageNextMembers(RunXml(m).storagenext[1],
                          StorageAfter(Unbound, RunXml(m).storage))[1]
          IN Len(decl) > 5 => snCur[m] = SubSeq(decl, 6, Len(decl) - 1)
    /\ snPend = [m \in SNOwners |-> NoPending]
    /\ tickReg = [m \in TROwners |->
                     DeclaredValue(StorageTickMember(RunXml(m).storagetick[1]))]
    /\ stalled = [m \in Stallables |-> FALSE]
    /\ lastGet = NoGet
    /\ committed = [m \in SNOwners |-> [value |-> snCur[m], proposals |-> {}]]
    /\ proposed = [m \in SNOwners |-> {}]
    /\ execCount = [m \in RunModules |-> ZeroCount]
    /\ userAssigned = [m \in TROwners |-> "none"]
    /\ stallTick = [m \in Stallables |-> FALSE]

Running == active # NoModule /\ ~inUser /\ ip <= Len(LifecycleBody(active, phase))
Statement == LifecycleBody(active, phase)[ip]
InUserLogic == active # NoModule /\ inUser /\ opsLeft > 0

\* the orchestrator calls all_current_tick / all_current_applytick of a
\* module that has not run in this phase
Call(m) ==
    /\ active = NoModule
    /\ m \notin ran
    /\ active' = m
    /\ ip' = 1
    /\ execCount' = [execCount EXCEPT ![m] = ZeroCount]
    /\ userAssigned' = IF phase = "tick" /\ m \in TROwners
                       THEN [userAssigned EXCEPT ![m] = "none"] ELSE userAssigned
    /\ lastGet' = NoGet
    /\ UNCHANGED <<phase, ran, inUser, opsLeft, snCur, snPend, tickReg, stalled,
                   committed, proposed, stallTick>>
    /\ UNCHANGED <<genVars, extVars, twinVars>>

CallAny == \E m \in RunModules : Call(m)

\* `_storagenext_<name>.apply_tick();`
Commit ==
    /\ Running
    /\ IsCommit(Statement)
    /\ LET m == active
           v == SNApplyTick(snCur[m], snPend[m])
       IN /\ snCur' = [snCur EXCEPT ![m] = v]
          /\ snPend' = [snPend EXCEPT ![m] = NoPending]
          /\ committed' = IF phase = "applytick"
                          THEN [committed EXCEPT
                                   ![m] = [value |-> v, proposals |-> proposed[m]]]
                          ELSE committed
          /\ proposed' = [proposed EXCEPT ![m] = {}]
          /\ execCount' = [execCount EXCEPT ![m].commit = @ + 1]
    /\ ip' = ip + 1
    /\ lastGet' = NoGet
    /\ UNCHANGED <<phase, ran, active, inUser, opsLeft, tickReg, stalled,
                   userAssigned, stallTick>>
    /\ UNCHANGED <<genVars, extVars, twinVars>>

\* `<name> = <value>;`
ResetTickReg ==
    /\ Running
    /\ IsAssign(Statement)
    /\ tickReg' = [tickReg EXCEPT ![active] = AssignedValue(Statement)]
    /\ execCount' = [execCount EXCEPT ![active].reset = @ + 1]
    /\ ip' = ip + 1
    /\ lastGet' = NoGet
    /\ UNCHANGED <<phase, ran, active, inUser, opsLeft, snCur, snPend, stalled,
                   committed, proposed, userAssigned, stallTick>>
    /\ UNCHANGED <<genVars, extVars, twinVars>>

\* `stalled = false;`
ClearStalled ==
    /\ Running
    /\ IsStallReset(Statement)
    /\ stalled' = [stalled EXCEPT ![active] = FALSE]
    /\ execCount' = [execCount EXCEPT ![active].stall = @ + 1]
    /\ ip' = ip + 1
    /\ lastGet' = NoGet
    /\ UNCHANGED <<phase, ran, active, inUser, opsLeft, snCur, snPend, tickReg,
                   committed, proposed, userAssigned, stallTick>>
    /\ UNCHANGED <<genVars, extVars, twinVars>>

\* `user_current_tick();` / `user_current_applytick();`
CallUser ==
    /\ Running
    /\ IsUserCall(Statement)
    /\ inUser' = TRUE
    /\ opsLeft' = MaxOps
    /\ ip' = ip + 1
    /\ lastGet' = NoGet
    /\ UNCHANGED <<phase, ran, active, snCur, snPend, tickReg, stalled, committed,
                   proposed, execCount, userAssigned, stallTick>>
    /\ UNCHANGED <<genVars, extVars, twinVars>>

\* user logic: <name>_get() of the own field, or of the field of the module
\* whose service the request is bound to
UserGet ==
    /\ InUserLogic
    /\ \E target \in SNOwners :
          lastGet' = [target |-> target, value |-> SNGet(snCur[target])]
    /\ opsLeft' = opsLeft - 1
    /\ UNCHANGED <<phase, ran, active, ip, inUser, snCur, snPend, tickReg, stalled,
                   committed, proposed, execCount, userAssigned, stallTick>>
    /\ UNCHANGED <<genVars, extVars, twinVars>>

\* user logic: <name>_setnext(value, priority), own or through a request
UserSetNext ==
    /\ InUserLogic
    /\ \E target \in SNOwners, v \in Values, p \in Priorities :
          /\ \E pend \in SNSetNext(snPend[target], v, p) :
                snPend' = [snPend EXCEPT ![target] = pend]
          /\ proposed' = [proposed EXCEPT ![target] = @ \cup {<<v, p>>}]
    /\ opsLeft' = opsLeft - 1
    /\ lastGet' = NoGet
    /\ UNCHANGED <<phase, ran, active, ip, inUser, snCur, tickReg, stalled,
                   committed, execCount, userAssigned, stallTick>>
    /\ UNCHANGED <<genVars, extVars, twinVars>>

\* user logic: the storagetick field is assigned directly
UserAssign ==
    /\ InUserLogic
    /\ active \in TROwners
    /\ \E v \in TickValues : tickReg' = [tickReg EXCEPT ![active] = v]
    /\ userAssigned' = [userAssigned EXCEPT ![active] = phase]
    /\ opsLeft' = opsLeft - 1
    /\ lastGet' = NoGet
    /\ UNCHANGED <<phase, ran, active, ip, inUser, snCur, snPend, stalled,
                   committed, proposed, execCount, stallTick>>
    /\ UNCHANGED <<genVars, extVars, twinVars>>

\* user logic: stall(), emitted as { stalled = true; _external_stall(); }
UserStall ==
    /\ InUserLogic
    /\ active \in Stallables
    /\ stalled' = [stalled EXCEPT ![active] = TRUE]
    /\ stallTick' = IF phase = "tick" THEN [stallTick EXCEPT ![active] = TRUE]
                    ELSE stallTick
    /\ execCount' = [execCount EXCEPT ![active].requests = @ + 1]
    /\ opsLeft' = opsLeft - 1
    /\ lastGet' = NoGet
    /\ UNCHANGED <<phase, ran, active, ip, inUser, snCur, snPend, tickReg,
                   committed, proposed, userAssigned>>
    /\ UNCHANGED <<genVars, extVars, twinVars>>

\* the user function returns
UserReturn ==
    /\ active # NoModule
    /\ inUser
    /\ inUser' = FALSE
    /\ opsLeft' = 0
    /\ lastGet' = NoGet
    /\ UNCHANGED <<phase, ran, active, ip, snCur, snPend, tickReg, stalled,
                   committed, proposed, execCount, userAssigned, stallTick>>
    /\ UNCHANGED <<genVars, extVars, twinVars>>

\* all_current_tick / all_current_applytick returns
Return ==
    /\ active # NoModule
    /\ ~inUser
    /\ ip > Len(LifecycleBody(active, phase))
    /\ ran' = ran \cup {active}
    /\ active' = NoModule
    /\ ip' = 0
    /\ stallTick' = IF phase = "applytick" /\ active \in Stallables
                    THEN [stallTick EXCEPT ![active] = FALSE] ELSE stallTick
    /\ lastGet' = NoGet
    /\ UNCHANGED <<phase, inUser, opsLeft, snCur, snPend, tickReg, stalled,
                   committed, proposed, execCount, userAssigned>>
    /\ UNCHANGED <<genVars, extVars, twinVars>>

\* the orchestrator: every module ticked, then every module applyticked
NextPhase ==
    /\ active = NoModule
    /\ ran = RunModules
    /\ phase' = IF phase = "tick" THEN "applytick" ELSE "tick"
    /\ ran' = {}
    /\ lastGet' = NoGet
    /\ UNCHANGED <<active, ip, inUser, opsLeft, snCur, snPend, tickReg, stalled,
                   committed, proposed, execCount, userAssigned, stallTick>>
    /\ UNCHANGED <<genVars, extVars, twinVars>>

RegsNext ==
    \/ CallAny \/ Commit \/ ResetTickReg \/ ClearStalled \/ CallUser
    \/ UserGet \/ UserSetNext \/ UserReturn \/ Return \/ NextPhase

\* the emitted code with user logic that reads and proposes storagenext values
SpecRegs == RunInit /\ [][RegsNext]_vars

CycleNext ==
    \/ CallAny \/ Commit \/ ResetTickReg \/ ClearStalled \/ CallUser
    \/ UserAssign \/ UserStall \/ UserReturn \/ Return \/ NextPhase

\* the emitted code with user logic that assigns storagetick fields and stalls
SpecCycle == RunInit /\ [][CycleNext]_vars

---------------------------------------------------------------------------
(* Claims about the emitted code at run time *)

Default(m) == StorageTickValue(RunXml(m).storagetick[1])

\* positions of the lines of a body that satisfy a test
CommitLines(body) == {i \in 1..Len(body) : IsCommit(body[i])}
ResetLines(body) == {i \in 1..Len(body) : IsAssign(body[i])}
UserCallLines(body) == {i \in 1..Len(body) : IsUserCall(body[i])}

\* C3: a <name>_get() executed in the tick phase, by the owner or through
\* another module's request, returns the value committed by the previous
\* applytick, also when setnext was called earlier in the same tick phase;
\* the emitted all_current_tick contains and performs no commit.
C3_TickReadsCommitted ==
    /\ \A m \in RunModules : CommitLines(LifecycleBody(m, "tick")) = {}
    /\ phase = "tick" =>
          /\ \A m \in ran \cup (RunModules \cap {active}) : execCount[m].commit = 0
          /\ lastGet # NoGet => lastGet.value = committed[lastGet.target].value

\* M2 reads M1's field in the tick phase after a different value was proposed
C3_Witness ==
    /\ phase = "tick"
    /\ active = "M2"
    /\ lastGet # NoGet
    /\ lastGet.target = "M1"
    /\ \E q \in proposed["M1"] : q[1] # lastGet.value

\* C4: each call of all_current_applytick commits every storagenext field of
\* the module exactly once, and from then on <name>_get() returns a value
\* proposed at the highest priority since the previous commit, in whatever
\* order the proposals were made.
C4_CommitOncePriorityWins ==
    \A m \in SNOwners :
        phase = "applytick" /\ m \in ran =>
            /\ execCount[m].commit = 1
            /\ SNGet(snCur[m]) = committed[m].value
            /\ committed[m].proposals # {} =>
                  SNGet(snCur[m]) \in Winners(committed[m].proposals)

\* proposals of different values at priorities 1 and 2 were committed
C4_Witness ==
    /\ phase = "applytick"
    /\ "M1" \in ran
    /\ \E q1, q2 \in committed["M1"].proposals :
          q1[2] = 1 /\ q2[2] = 2 /\ q1[1] # q2[1] /\ snCur["M1"] = q2[1]

\* C5: whatever user logic assigned to a storagetick field with default d,
\* the emitted all_current_applytick holds the reset `<name> = d;` once,
\* before the call of user_current_applytick; the call executes it once, the
\* field reads d when the user logic of the call starts and still reads d
\* after the call unless that user logic assigned it after the reset.
C5_ResetToDefault ==
    \A m \in TROwners :
        LET body == LifecycleBody(m, "applytick")
        IN /\ Cardinality(ResetLines(body)) = 1
           /\ \A i \in ResetLines(body) :
                 /\ AssignedValue(body[i]) = Default(m)
                 /\ \A j \in UserCallLines(body) : i < j
           /\ phase = "applytick" /\ m \in ran => execCount[m].reset = 1
           /\ phase = "applytick" /\ (m \in ran \/ (active = m /\ inUser))
                 /\ userAssigned[m] # "applytick" => tickReg[m] = Default(m)

\* M2's field, default 1, was assigned 0 or 7 in the tick phase and reads 1
\* after all_current_applytick
C5_Witness ==
    /\ phase = "applytick"
    /\ "M2" \in ran
    /\ userAssigned["M2"] = "tick"
    /\ tickReg["M2"] = <<"1">>

\* C6: after stall() in the tick phase, stalled reads true until the next
\* all_current_applytick has returned, the user logic of that call included,
\* and false once it has returned unless that logic called stall() again.
C6_StalledUntilApplytickCompletes ==
    \A m \in Stallables :
        /\ stallTick[m] => stalled[m]
        /\ phase = "applytick" /\ m \in ran /\ execCount[m].requests = 0
              => ~stalled[m]


---------------------------------------------------------------------------
(* extract_cpp_function_body, lines 190-210 *)

\* top-level declarations of a generated C++ file
MaxItems == 3

\* layout before a declaration: on the line of the previous one, on a line
\* of its own, or on a line of its own and indented
Layouts == {<<" ">>, <<"\n">>, <<"\n", " ", " ">>}

\* function bodies as written between the braces: dense, padded, over
\* several indented lines, and holding a nested block
Bodies ==
    {<<"a;">>,
     <<" ", "a;", " ">>,
     <<"\n", " ", "a;", "\n", " ", "b;", "\n">>,
     <<" ", "{", "a;", "}", " ">>}

Definition(name, body) ==
    [kind |-> "FUNCTION_DECL", spelling |-> name, defined |-> TRUE, body |-> body]
Declaration(name) ==
    [kind |-> "FUNCTION_DECL", spelling |-> name, defined |-> FALSE, body |-> <<>>]
StructS ==
    [kind |-> "STRUCT_DECL", spelling |-> "S", defined |-> TRUE, body |-> <<>>]

Decls ==
    {Definition("f", b) : b \in Bodies} \cup {Definition("g", <<"b;">>)}
    \cup {Declaration("f"), StructS}

Items == {[decl |-> d, pre |-> l] : d \in Decls, l \in Layouts}

\* a file defines a function or a struct at most once
OneDefinition(items) ==
    \A i, j \in 1..Len(items) :
        /\ items[i].decl.defined /\ items[j].decl.defined
        /\ items[i].decl.spelling = items[j].decl.spelling
        => i = j

Files == {items \in SeqsUpTo(Items, MaxItems) : OneDefinition(items)}

\* the text of a declaration, from the first to the last token of its extent
DeclText(d) ==
    IF d.kind = "STRUCT_DECL" THEN <<"struct S ", "{", "}">>
    ELSE IF d.defined THEN <<"void ", d.spelling, "()", "{">> \o d.body \o <<"}">>
    ELSE <<"void ", d.spelling, "()">>

\* what follows the extent: the semicolon of a declaration or of a struct
DeclEnd(d) == IF d.kind = "FUNCTION_DECL" /\ d.defined THEN <<>> ELSE <<";">>

ItemText(it) == it.pre \o DeclText(it.decl) \o DeclEnd(it.decl)

\* f.readlines() joined: the whole file, ended by a line break
FileText(items) ==
    Concat([i \in 1..Len(items) |-> ItemText(items[i])]) \o <<"\n">>

\* node.extent.start and node.extent.end as positions in the file
ExtentStart(items, i) ==
    Len(Concat([k \in 1..(i - 1) |-> ItemText(items[k])])) + Len(items[i].pre) + 1
ExtentEnd(items, i) == ExtentStart(items, i) + Len(DeclText(items[i].decl)) - 1

\* the line number of a position, counted from 1
LineOf(text, pos) == 1 + Cardinality({k \in 1..(pos - 1) : text[k] = "\n"})

\* "".join(lines[a - 1:b]): the lines a..b with their line breaks
JoinLines(text, a, b) ==
    LET ks == {k \in 1..Len(text) : LineOf(text, k) \in a..b}
    IN [i \in 1..Cardinality(ks) |->
           text[CHOOSE k \in ks : Cardinality({j \in ks : j < k}) = i - 1]]

\* str.find / str.rfind of one character: index from 0, or -1
Find(t, c) ==
    IF \E k \in 1..Len(t) : t[k] = c
    THEN (CHOOSE k \in 1..Len(t) : t[k] = c /\ \A j \in 1..(k - 1) : t[j] # c) - 1
    ELSE -1
RFind(t, c) ==
    IF \E k \in 1..Len(t) : t[k] = c
    THEN (CHOOSE k \in 1..Len(t) : t[k] = c /\ \A j \in (k + 1)..Len(t) : t[j] # c) - 1
    ELSE -1

\* t[a:b] for indexes from 0
Slice(t, a, b) == SubSeq(t, a + 1, b)

\* lines 199-206: the lines of the extent, cut at the first `{` and the last `}`
FuncCode(items, i) ==
    LET text == FileText(items)
    IN JoinLines(text, LineOf(text, ExtentStart(items, i)),
                 LineOf(text, ExtentEnd(items, i)))

ExtInit ==
    /\ GenIdle
    /\ RunIdle
    /\ TwinIdle
    /\ cppItems \in Files
    /\ func_name \in {"f", "g"}
    /\ nodeIdx = 1
    /\ func_body = NotReturned

\* lines 194-208: one child of tu.cursor
VisitNode ==
    /\ ~func_body.returned
    /\ nodeIdx \in 1..Len(cppItems)
    /\ LET node == cppItems[nodeIdx].decl
           func_code == FuncCode(cppItems, nodeIdx)
           brace_start == Find(func_code, "{")
           brace_end == RFind(func_code, "}")
       IN IF /\ node.kind = "FUNCTION_DECL" /\ node.spelling = func_name
             /\ brace_start # -1 /\ brace_end # -1
          THEN /\ func_body' = [returned |-> TRUE,
                                text |-> Strip(Slice(func_code, brace_start + 1, brace_end))]
               /\ UNCHANGED nodeIdx
          ELSE /\ nodeIdx' = nodeIdx + 1
               /\ UNCHANGED func_body
    /\ UNCHANGED <<cppItems, func_name>>
    /\ UNCHANGED <<genVars, runVars, twinVars>>

\* line 210: no child matched
ReturnEmpty ==
    /\ ~func_body.returned
    /\ nodeIdx > Len(cppItems)
    /\ func_body' = [returned |-> TRUE, text |-> <<>>]
    /\ UNCHANGED <<cppItems, func_name, nodeIdx>>
    /\ UNCHANGED <<genVars, runVars, twinVars>>

ExtNext == VisitNode \/ ReturnEmpty

\* one call of extract_cpp_function_body on every file of up to MaxItems
\* declarations
SpecExtract == ExtInit /\ [][ExtNext]_vars

---------------------------------------------------------------------------
(* Claims about extract_cpp_function_body *)

IsDefinitionOf(d, name) ==
    d.kind = "FUNCTION_DECL" /\ d.defined /\ d.spelling = name

Defines(items, name) == \E i \in 1..Len(items) : IsDefinitionOf(items[i].decl, name)

DefinitionIndex(items, name) ==
    CHOOSE i \in 1..Len(items) : IsDefinitionOf(items[i].decl, name)

\* the text strictly between the function's own braces, trimmed
OwnBody(items, name) == Strip(items[DefinitionIndex(items, name)].decl.body)

\* the declaration shares none of its lines with another declaration
OnOwnLines(items, i) ==
    /\ i = 1 \/ Head(items[i].pre) = "\n"
    /\ i = Len(items) \/ Head(items[i + 1].pre) = "\n"

\* C11: for every file that defines a top-level function f, the call
\* returns the text strictly between the braces of f, trimmed, whatever the
\* indentation, whatever else stands on the first or last line of f and
\* whether or not f is declared before it is defined.
C11_ExtractsOwnBody ==
    func_body.returned /\ Defines(cppItems, func_name) =>
        func_body.text = OwnBody(cppItems, func_name)

\* the part that holds: the body is returned when the definition, and every
\* declaration of the function before it, shares no line with another
\* declaration
C11_OnOwnLines ==
    /\ func_body.returned
    /\ Defines(cppItems, func_name)
    /\ \A i \in 1..DefinitionIndex(cppItems, func_name) :
          cppItems[i].decl.spelling = func_name => OnOwnLines(cppItems, i)
    => func_body.text = OwnBody(cppItems, func_name)

---------------------------------------------------------------------------
(* Two runs of the combine loop over inputs that differ in <storage> only *)

\* <storage> elements of one combine file
MaxStorage == 1

TwinNames == {"A", "B"}

\* a <storage>: without <value>, with a text-only <value>, and with a
\* <value> that has a child element
StorageElems ==
    {[name |-> "s", type |-> "int32", value |-> v] :
        v \in {NoElem, Elem(0, <<"5">>), Elem(1, <<"7">>)}}

\* a <storagenext>: without <value> and with a <value> of its own
StorageNextElems ==
    {[name |-> "r", type |-> "int32", value |-> v] : v \in {NoElem, Elem(0, <<"3">>)}}

\* one or two combine files, each with at most one <storagenext>
TwinPlans ==
    UNION {[1..n -> SeqsUpTo(StorageNextElems, 1)] : n \in 1..Len(CombineNames)}

TwinStart ==
    [pc |-> "combines", fileIdx |-> 1, storage |-> Unbound, inputs |-> <<>>,
     decls |-> <<>>]

\* the declarations of the storagenext fields among the member lines
StorageNextDecls(member_field) ==
    SelectSeq(member_field, LAMBDA line : line # <<>> /\ line[1] = "StorageNext<")

TwinInit ==
    /\ GenIdle
    /\ RunIdle
    /\ ExtIdle
    /\ twinPlan \in TwinPlans
    /\ twinRuns = [r \in TwinNames |-> TwinStart]

\* lines 212-534 in run r: its next combine file, with the <storage>
\* elements this run finds in it
TwinCombine(r) ==
    LET run == twinRuns[r] IN
    /\ run.pc = "combines"
    /\ run.fileIdx <= Len(twinPlan)
    /\ \E elems \in SeqsUpTo(StorageElems, MaxStorage) :
          LET xml == [EmptyCombine(CombineNames[run.fileIdx]) EXCEPT
                         !.storage = elems,
                         !.storagenext = twinPlan[run.fileIdx]]
              st == StorageAfter(run.storage, xml.storage)
          IN twinRuns' =
                [twinRuns EXCEPT
                    ![r] = IF xml.storagenext # <<>> /\ ~st.bound
                           THEN \* NameError at line 370
                                [run EXCEPT !.pc = "crash", !.storage = st,
                                            !.inputs = Append(@, elems)]
                           ELSE [run EXCEPT
                                    !.storage = st,
                                    !.inputs = Append(@, elems),
                                    !.decls = Append(@,
                                        StorageNextDecls(MemberField(xml, st))),
                                    !.fileIdx = @ + 1]]
    /\ UNCHANGED twinPlan
    /\ UNCHANGED <<genVars, runVars, extVars>>

TwinCombineAny == \E r \in TwinNames : TwinCombine(r)

\* lines 540-546 in run r: every combine file was processed
TwinSummary(r) ==
    /\ twinRuns[r].pc = "combines"
    /\ twinRuns[r].fileIdx > Len(twinPlan)
    /\ twinRuns' = [twinRuns EXCEPT ![r].pc = "done"]
    /\ UNCHANGED twinPlan
    /\ UNCHANGED <<genVars, runVars, extVars>>

TwinSummaryAny == \E r \in TwinNames : TwinSummary(r)

TwinNext == TwinCombineAny \/ TwinSummaryAny

\* two runs of the combine loop over the same files up to <storage> elements
SpecTwin == TwinInit /\ [][TwinNext]_vars

---------------------------------------------------------------------------
(* Claims about the storagenext declarations *)

TextOnly(run) ==
    \A i \in 1..Len(run.inputs) : \A j \in 1..Len(run.inputs[i]) :
        ~Truthy(run.inputs[i][j].value)

\* C12: two runs whose inputs differ only in <storage> elements, of the
\* same combine or of earlier ones, none at all included, both complete
\* and emit the same storagenext declarations.
C12_OwnDescriptorDecides ==
    /\ \A r \in TwinNames : twinRuns[r].pc # "crash"
    /\ (\A r \in TwinNames : twinRuns[r].pc = "done") =>
          twinRuns["A"].decls = twinRuns["B"].decls

\* the part that holds: completed runs agree when no <value> of a
\* <storage> has a child element
C12_TextOnlyAgree ==
    /\ \A r \in TwinNames : twinRuns[r].pc = "done" /\ TextOnly(twinRuns[r])
    => twinRuns["A"].decls = twinRuns["B"].decls

===========================================================================
